---- MODULE Spec2Model ----
(***************************************************************************)
(* Model of the prompt-assembly and response-translation core of the DIAL  *)
(* Bedrock adapter: the message model and its parser (llm/message.py), the *)
(* tools/functions reconciliation (claude/v3/tools.py), the finish reason  *)
(* mapper (claude/v3/converters.py), the prompt truncator and the Llama    *)
(* chat emulator (exercised by tests/unit_tests/chat_emulation).           *)
(*                                                                         *)
(* The core is stateless: every operation is a pure function of its        *)
(* arguments.  The state machine records one call at a time: which         *)
(* operation was called (op), with which arguments (args), what it         *)
(* returned or raised (ret), and the HTTP requests it sent (http).  The    *)
(* attachment resolver (claude/v3/converters.py, dial_api/storage.py) is   *)
(* the one operation that reaches the network.                             *)
(*                                                                         *)
(* Python values are modelled as records so that None and a value of any   *)
(* type can be compared: a str is Str(<<token, ...>>), a sequence of       *)
(* tokens (a token is a word, a marker or one whitespace character), an    *)
(* Optional list is List(<<...>>), an Optional int is IntVal(n).           *)
(***************************************************************************)
EXTENDS Integers, Sequences, FiniteSets, TLC

VARIABLES op, args, ret, http

vars == <<op, args, ret, http>>

---------------------------------------------------------------------------
(* Python values *)

None == [none |-> TRUE]

Str(tokens) == [str |-> tokens]

List(items) == [list |-> items]

IntVal(n) == [int |-> n]

(* The outcome of a call: a returned value or a raised exception. *)
Return(value) == [kind |-> "return", value |-> value]

Raise(error, message) == [kind |-> "raise", error |-> error, message |-> message]

Range(s) == {s[i] : i \in 1..Len(s)}

(* All sequences over S of length 0..n. *)
SeqsUpTo(S, n) == UNION {[1..k -> S] : k \in 0..n}

RECURSIVE Concat(_)
Concat(ss) == IF ss = <<>> THEN <<>> ELSE Head(ss) \o Concat(Tail(ss))

---------------------------------------------------------------------------
(* llm/message.py: the message model *)

ROLE_SYSTEM == "system"

ROLE_USER == "user"

ROLE_ASSISTANT == "assistant"

ROLE_FUNCTION == "function"

ROLE_TOOL == "tool"

Role == {ROLE_SYSTEM, ROLE_USER, ROLE_ASSISTANT, ROLE_FUNCTION, ROLE_TOOL}

FunctionCall(name, arguments) == [name |-> name, arguments |-> arguments]

ToolCall(index, id, type, function) ==
    [index |-> index, id |-> id, type |-> type, function |-> function]

(* The wire message of the DIAL chat completion API. *)
Message(role, content, custom_content, name, tool_call_id, tool_calls, function_call) ==
    [role |-> role, content |-> content, custom_content |-> custom_content,
     name |-> name, tool_call_id |-> tool_call_id, tool_calls |-> tool_calls,
     function_call |-> function_call]

SystemMessage(content) == [type |-> "SystemMessage", content |-> content]

HumanRegularMessage(content, custom_content) ==
    [type |-> "HumanRegularMessage", content |-> content,
     custom_content |-> custom_content]

HumanToolResultMessage(id, content) ==
    [type |-> "HumanToolResultMessage", id |-> id, content |-> content]

HumanFunctionResultMessage(name, content) ==
    [type |-> "HumanFunctionResultMessage", name |-> name, content |-> content]

AIRegularMessage(content, custom_content) ==
    [type |-> "AIRegularMessage", content |-> content,
     custom_content |-> custom_content]

AIToolCallMessage(calls, content) ==
    [type |-> "AIToolCallMessage", calls |-> calls, content |-> content]

AIFunctionCallMessage(call, content) ==
    [type |-> "AIFunctionCallMessage", call |-> call, content |-> content]

(* The two unions of message.py, as sets of variant names. *)
BaseMessage == {"SystemMessage", "HumanRegularMessage", "AIRegularMessage"}

ToolMessage == {"HumanToolResultMessage", "HumanFunctionResultMessage",
                "AIToolCallMessage", "AIFunctionCallMessage"}

isinstance(message, types) == message.type \in types

---------------------------------------------------------------------------
(* llm/message.py: parsing *)

(* A faulty variant: tool calls win when a function call is set as well. *)
_parse_assistant_message_both_as_tools(content, function_call, tool_calls, custom_content) ==
    IF content # None /\ function_call = None /\ tool_calls = None
    THEN Return(AIRegularMessage(content, custom_content))
    ELSE IF function_call # None /\ tool_calls = None
    THEN Return(AIFunctionCallMessage(function_call, content))
    ELSE IF tool_calls # None
    THEN Return(AIToolCallMessage(tool_calls.list, content))
    ELSE Raise("ValidationError", "Unknown type of assistant message")

_parse_assistant_message(content, function_call, tool_calls, custom_content) ==
    IF content # None /\ function_call = None /\ tool_calls = None
    THEN Return(AIRegularMessage(content, custom_content))
    ELSE IF function_call # None /\ tool_calls = None
    THEN Return(AIFunctionCallMessage(function_call, content))
    ELSE IF function_call = None /\ tool_calls # None
    THEN Return(AIToolCallMessage(tool_calls.list, content))
    ELSE Raise("ValidationError", "Unknown type of assistant message")

parse_dial_message(msg) ==
    IF msg.role = ROLE_SYSTEM /\ msg.content # None
    THEN Return(SystemMessage(msg.content))
    ELSE IF msg.role = ROLE_USER /\ msg.content # None
    THEN Return(HumanRegularMessage(msg.content, msg.custom_content))
    ELSE IF msg.role = ROLE_ASSISTANT
    THEN _parse_assistant_message(msg.content, msg.function_call,
                                  msg.tool_calls, msg.custom_content)
    ELSE IF msg.role = ROLE_FUNCTION /\ msg.content # None /\ msg.name # None
    THEN Return(HumanFunctionResultMessage(msg.name, msg.content))
    ELSE IF msg.role = ROLE_TOOL /\ msg.content # None /\ msg.tool_call_id # None
    THEN Return(HumanToolResultMessage(msg.tool_call_id, msg.content))
    ELSE Raise("ValidationError", "Unknown message type or invalid message")

---------------------------------------------------------------------------
(* Inputs of the parser: every combination of present and absent fields. *)

WireContents == {None, Str(<<>>), Str(<<"text">>)}

WireNames == {None, Str(<<"f">>)}

WireToolCallIds == {None, Str(<<"call_1">>)}

WireFunctionCalls == {None, FunctionCall(Str(<<"f">>), Str(<<"{}">>))}

WireToolCalls ==
    {None, List(<<>>),
     List(<<ToolCall(None, Str(<<"call_1">>), "function",
                     FunctionCall(Str(<<"f">>), Str(<<"{}">>)))>>)}

WireCustomContents == {None, [attachments |-> <<>>]}

WireMessages ==
    {Message(r, c, cc, n, id, tcs, fc) :
        r \in Role, c \in WireContents, cc \in WireCustomContents,
        n \in WireNames, id \in WireToolCallIds, tcs \in WireToolCalls,
        fc \in WireFunctionCalls}

---------------------------------------------------------------------------
(* llm/tools/tools_config.py: ToolsMode, or None when the request          *)
(* configures neither tools nor functions.                                 *)

TOOLS == [mode |-> "TOOLS"]

FUNCTIONS == [mode |-> "FUNCTIONS"]

ToolsMode == {TOOLS, FUNCTIONS}

---------------------------------------------------------------------------
(* claude/v3/tools.py: process_with_tools *)

(* A faulty variant: the synthesized id is a constant, not the name. *)
_process_functions_const_id(message) ==
    IF isinstance(message, {"HumanRegularMessage"})
    THEN Return(message)
    ELSE IF isinstance(message, {"HumanToolResultMessage", "AIToolCallMessage"})
    THEN Raise("ValidationError",
               "You cannot use tools messages with functions config.")
    ELSE IF isinstance(message, {"AIFunctionCallMessage"})
    THEN Return(AIToolCallMessage(
                    <<ToolCall(None, Str(<<"call">>), "function", message.call)>>,
                    message.content))
    ELSE IF isinstance(message, {"HumanFunctionResultMessage"})
    THEN Return(HumanToolResultMessage(Str(<<"call">>), message.content))
    ELSE Raise("ValueError", "Unknown message type")

(* The FUNCTIONS branch: function messages become tool messages whose id   *)
(* is the function name.                                                   *)
_process_functions(message) ==
    IF isinstance(message, {"HumanRegularMessage"})
    THEN Return(message)
    ELSE IF isinstance(message, {"HumanToolResultMessage", "AIToolCallMessage"})
    THEN Raise("ValidationError",
               "You cannot use tools messages with functions config.")
    ELSE IF isinstance(message, {"AIFunctionCallMessage"})
    THEN Return(AIToolCallMessage(
                    <<ToolCall(None, message.call.name, "function", message.call)>>,
                    message.content))
    ELSE IF isinstance(message, {"HumanFunctionResultMessage"})
    THEN Return(HumanToolResultMessage(message.name, message.content))
    ELSE Raise("ValueError", "Unknown message type")

(* A faulty variant: mode TOOLS lets function messages through. *)
process_with_tools_no_tools_check(message, tools_mode) ==
    IF tools_mode = None
    THEN IF ~isinstance(message, BaseMessage)
         THEN Raise("ValidationError",
                    "You cannot use messages with functions or tools without config. Please change your messages.")
         ELSE Return(message)
    ELSE IF tools_mode = TOOLS
    THEN Return(message)
    ELSE _process_functions(message)

process_with_tools(message, tools_mode) ==
    IF tools_mode = None
    THEN IF ~isinstance(message, BaseMessage)
         THEN Raise("ValidationError",
                    "You cannot use messages with functions or tools without config. Please change your messages.")
         ELSE Return(message)
    ELSE IF tools_mode = TOOLS
    THEN IF \/ isinstance(message, {"HumanFunctionResultMessage"})
            \/ isinstance(message, {"AIFunctionCallMessage"})
         THEN Raise("ValidationError",
                    "You cannot use function messages with tools config.")
         ELSE Return(message)
    ELSE _process_functions(message)

---------------------------------------------------------------------------
(* Inputs of process_with_tools: every message variant. *)

MaxCalls == 2

MsgContents == {Str(<<"text">>), Str(<<>>)}

FunctionNames == {Str(<<"f">>), Str(<<"g">>)}

Arguments == {Str(<<"{}">>), Str(<<"{x:1}">>)}

ToolCallIds == {Str(<<"call_1">>), Str(<<"f">>)}

FunctionCalls == {FunctionCall(n, a) : n \in FunctionNames, a \in Arguments}

ToolCalls == {ToolCall(None, id, "function", fc) : id \in ToolCallIds, fc \in FunctionCalls}

PlainMessages ==
    {SystemMessage(c) : c \in MsgContents}
    \cup {HumanRegularMessage(c, cc) : c \in MsgContents, cc \in WireCustomContents}
    \cup {AIRegularMessage(c, cc) : c \in MsgContents, cc \in WireCustomContents}

FunctionMessages ==
    {AIFunctionCallMessage(fc, c) : fc \in FunctionCalls, c \in MsgContents \cup {None}}
    \cup {HumanFunctionResultMessage(n, c) : n \in FunctionNames, c \in MsgContents}

ToolsMessages ==
    {AIToolCallMessage(calls, c) :
        calls \in SeqsUpTo(ToolCalls, MaxCalls), c \in MsgContents \cup {None}}
    \cup {HumanToolResultMessage(id, c) : id \in ToolCallIds, c \in MsgContents}

AllMessages == PlainMessages \cup FunctionMessages \cup ToolsMessages

---------------------------------------------------------------------------
(* claude/v3/converters.py: to_dial_finish_reason *)

FINISH_STOP == "stop"

FINISH_LENGTH == "length"

FINISH_TOOL_CALLS == "tool_calls"

FINISH_FUNCTION_CALL == "function_call"

FinishReason == {FINISH_STOP, FINISH_LENGTH, FINISH_TOOL_CALLS, FINISH_FUNCTION_CALL}

ClaudeFinishReason ==
    {Str(<<"end_turn">>), Str(<<"max_tokens">>), Str(<<"stop_sequence">>),
     Str(<<"tool_use">>)}

(* A faulty variant: tool_use is tool_calls under FUNCTIONS too. *)
_tool_use_finish_reason_always_tools(tools_mode) ==
    IF tools_mode = TOOLS THEN Return(FINISH_TOOL_CALLS)
    ELSE IF tools_mode = FUNCTIONS THEN Return(FINISH_TOOL_CALLS)
    ELSE IF tools_mode = None
    THEN Raise("ValidationError",
               "A model has called a tool, but no tools were given to the model in the first place.")
    ELSE Raise("Exception", "Unknown tools mode during tool use!")

_tool_use_finish_reason(tools_mode) ==
    IF tools_mode = TOOLS THEN Return(FINISH_TOOL_CALLS)
    ELSE IF tools_mode = FUNCTIONS THEN Return(FINISH_FUNCTION_CALL)
    ELSE IF tools_mode = None
    THEN Raise("ValidationError",
               "A model has called a tool, but no tools were given to the model in the first place.")
    ELSE Raise("Exception", "Unknown tools mode during tool use!")

to_dial_finish_reason(finish_reason, tools_mode) ==
    IF finish_reason = None THEN Return(FINISH_STOP)
    ELSE IF finish_reason = Str(<<"end_turn">>) THEN Return(FINISH_STOP)
    ELSE IF finish_reason = Str(<<"max_tokens">>) THEN Return(FINISH_LENGTH)
    ELSE IF finish_reason = Str(<<"stop_sequence">>) THEN Return(FINISH_STOP)
    ELSE IF finish_reason = Str(<<"tool_use">>)
    THEN _tool_use_finish_reason(tools_mode)
    ELSE Raise("AssertionError", "Expected code to be unreachable")

(* The reasons a backend can send: the four of the Literal, none, and one  *)
(* outside the Literal (the assert_never branch).                          *)
BackendReasons == ClaudeFinishReason \cup {None, Str(<<"refusal">>)}

---------------------------------------------------------------------------
(* Text: a str is a sequence of tokens; a token in Whitespace is one       *)
(* whitespace character, every other token is a run of non-whitespace.     *)

Whitespace == {" ", "\n", "\t"}

RECURSIVE lstrip(_)
lstrip(s) ==
    IF s # <<>> /\ Head(s) \in Whitespace THEN lstrip(Tail(s)) ELSE s

RECURSIVE rstrip(_)
rstrip(s) ==
    IF s # <<>> /\ s[Len(s)] \in Whitespace
    THEN rstrip(SubSeq(s, 1, Len(s) - 1))
    ELSE s

(* str.strip() *)
strip(s) == rstrip(lstrip(s))

(* len(s.split()): the number of maximal runs of non-whitespace tokens. *)
split_len(s) ==
    Cardinality({i \in 1..Len(s) :
        /\ s[i] \notin Whitespace
        /\ (i = 1 \/ s[i - 1] \in Whitespace)})

---------------------------------------------------------------------------
(* tests/unit_tests/chat_emulation/test_llama_chat.py: the tokenizer the   *)
(* truncation tests inject, and the helpers of tests.utils.messages.       *)

(* A faulty variant: one more token per message, for its role. *)
RECURSIVE _tokenize_by_words_and_role(_)
_tokenize_by_words_and_role(messages) ==
    IF messages = <<>> THEN 0
    ELSE 1 + split_len(Head(messages).content.str)
         + _tokenize_by_words_and_role(Tail(messages))

RECURSIVE _tokenize_by_words(_)
_tokenize_by_words(messages) ==
    IF messages = <<>> THEN 0
    ELSE split_len(Head(messages).content.str) + _tokenize_by_words(Tail(messages))

sys(content) == SystemMessage(Str(content))

user(content) == HumanRegularMessage(Str(content), None)

ai(content) == AIRegularMessage(Str(content), None)

turns_sys ==
    <<sys(<<"system">>), user(<<"hello">>), ai(<<"hi">>), user(<<"ping">>),
      ai(<<"pong">>), user(<<"improvise">>)>>

turns_no_sys == Tail(turns_sys)

---------------------------------------------------------------------------
(* The prompt truncator (llm/truncate_prompt.py), with the keep policy of  *)
(* llm/chat_model.py.  Message indices are zero-based, as in Python.       *)

MinOf(a, b) == IF a <= b THEN a ELSE b

RECURSIVE SetToSortedSeq(_)
SetToSortedSeq(S) ==
    IF S = {} THEN <<>>
    ELSE LET m == CHOOSE x \in S : \A y \in S : x <= y
         IN <<m>> \o SetToSortedSeq(S \ {m})

select_by_indices(messages, indices) ==
    LET order == SetToSortedSeq(indices)
    IN [k \in 1..Len(order) |-> messages[order[k] + 1]]

(* Every system message and the last message are mandatory. *)
default_keep_message(messages, idx) ==
    \/ messages[idx + 1].type = "SystemMessage"
    \/ idx = Len(messages) - 1

MandatoryIndices(messages) ==
    {idx \in 0..(Len(messages) - 1) : default_keep_message(messages, idx)}

(* The turn units: the non-mandatory indices, oldest first, cut into       *)
(* consecutive groups of the sizes the partitioner returns.                *)
RECURSIVE _chunks(_, _)
_chunks(indices, sizes) ==
    IF sizes = <<>> THEN <<>>
    ELSE <<Range(SubSeq(indices, 1, Head(sizes)))>>
         \o _chunks(SubSeq(indices, Head(sizes) + 1, Len(indices)), Tail(sizes))

TurnUnits(messages, partition_sizes) ==
    _chunks(SetToSortedSeq((0..(Len(messages) - 1)) \ MandatoryIndices(messages)),
            partition_sizes)

(* The Llama partitioner: consecutive human/assistant pairs, oldest first. *)
llama_partitioner(messages) ==
    LET free == Len(messages) - Cardinality(MandatoryIndices(messages))
    IN [k \in 1..((free + 1) \div 2) |-> IF 2 * k <= free THEN 2 ELSE 1]

effective_limit(model_limit, user_limit) ==
    IF model_limit = None THEN user_limit ELSE MinOf(model_limit.int, user_limit)

TruncatePromptError(max_prompt_tokens, prompt_tokens) ==
    [type |-> "TruncatePromptError", max_prompt_tokens |-> max_prompt_tokens,
     prompt_tokens |-> prompt_tokens]

SetVal(items) == [type |-> "set", items |-> items]

(* The walk over the units, from the most recent (units[k]) to the oldest: *)
(* a unit is kept while the kept messages with it stay within the limit.   *)
(* A faulty variant: a unit that does not fit is skipped and the walk goes on. *)
RECURSIVE _walk_skip_unfit(_, _, _, _, _)
_walk_skip_unfit(messages, units, k, kept, limit) ==
    IF k = 0 THEN kept
    ELSE IF _tokenize_by_words(select_by_indices(messages, kept \cup units[k])) > limit
    THEN _walk_skip_unfit(messages, units, k - 1, kept, limit)
    ELSE _walk_skip_unfit(messages, units, k - 1, kept \cup units[k], limit)

(* A faulty variant: the walk takes the messages of a unit one at a time. *)
RECURSIVE _walk_by_message(_, _, _, _, _)
_walk_by_message(messages, units, k, kept, limit) ==
    IF k = 0 THEN kept
    ELSE LET last == CHOOSE x \in units[k] : \A y \in units[k] : y <= x
             rest == units[k] \ {last}
         IN IF _tokenize_by_words(select_by_indices(messages, kept \cup {last})) > limit
            THEN kept
            ELSE IF rest = {}
            THEN _walk_by_message(messages, units, k - 1, kept \cup {last}, limit)
            ELSE _walk_by_message(messages, [units EXCEPT ![k] = rest], k,
                                  kept \cup {last}, limit)

RECURSIVE _walk(_, _, _, _, _)
_walk(messages, units, k, kept, limit) ==
    IF k = 0 THEN kept
    ELSE IF _tokenize_by_words(select_by_indices(messages, kept \cup units[k])) > limit
    THEN kept
    ELSE _walk(messages, units, k - 1, kept \cup units[k], limit)

truncate_prompt(messages, partition_sizes, model_limit, user_limit) ==
    LET limit == effective_limit(model_limit, user_limit)
        kept_indices == MandatoryIndices(messages)
        units == TurnUnits(messages, partition_sizes)
        token_count == _tokenize_by_words(select_by_indices(messages, kept_indices))
    IN IF token_count > limit
       THEN Return(TruncatePromptError(limit, token_count))
       ELSE Return(SetVal((0..(Len(messages) - 1))
                          \ _walk(messages, units, Len(units), kept_indices, limit)))

---------------------------------------------------------------------------
(* Inputs of the truncator. *)

MaxMessages == 4

MaxUserLimit == 7

MaxModelLimit == 3

TruncateMessageValues ==
    {sys(<<"system">>), user(<<"hello">>), ai(<<"hi", " ", "there">>)}

TruncateInputs ==
    SeqsUpTo(TruncateMessageValues, MaxMessages) \cup {turns_sys, turns_no_sys}

(* Every way to cut n messages into consecutive non-empty units. *)
RECURSIVE Compositions(_)
Compositions(n) ==
    IF n = 0 THEN {<<>>}
    ELSE UNION {{<<k>> \o c : c \in Compositions(n - k)} : k \in 1..n}

Partitions(messages) ==
    Compositions(Len(messages) - Cardinality(MandatoryIndices(messages)))

ModelLimits == {None} \cup {IntVal(n) : n \in 0..MaxModelLimit}

---------------------------------------------------------------------------
(* The Llama chat emulator (llm/model/llama_chat.py): llama_emulator.      *)
(* The prompt is a sequence of tokens; the template markers are tokens.    *)

BOS == "<s>"

EOS == "</s>"

B_INST == "[INST]"

E_INST == "[/INST]"

B_SYS == <<"<<SYS>>", "\n">>

E_SYS == <<"\n", "<</SYS>>", "\n", "\n">>

LAST_MESSAGE_ERROR == "The last message must be from user"

ALTERNATION_ERROR ==
    "The model only supports initial optional system message and follow-up alternating human/assistant messages"

(* The optional leading system message and the messages after it. *)
_split_system(messages) ==
    IF messages # <<>> /\ Head(messages).type = "SystemMessage"
    THEN [system |-> Head(messages).content, turns |-> Tail(messages)]
    ELSE [system |-> None, turns |-> messages]

_ends_with_user(turns) ==
    turns # <<>> /\ turns[Len(turns)].type = "HumanRegularMessage"

(* A faulty variant: only adjacent roles are compared; any role may start. *)
_alternates_adjacent_only(turns) ==
    \A i \in 1..(Len(turns) - 1) : turns[i].type # turns[i + 1].type

(* A user message first, then assistant and user messages in turn. *)
_alternates(turns) ==
    \A i \in 1..Len(turns) :
        turns[i].type = IF i % 2 = 1 THEN "HumanRegularMessage" ELSE "AIRegularMessage"

_format_human(text) == <<BOS, B_INST, " ">> \o strip(text) \o <<" ", E_INST>>

(* A faulty variant: the assistant text is embedded as it is. *)
_format_ai_no_strip(text) == <<" ">> \o text \o <<" ", EOS>>

_format_ai(text) == <<" ">> \o strip(text) \o <<" ", EOS>>

(* The system prompt is prepended to the first human message, in its       *)
(* <<SYS>> block, before the turn is formatted.                            *)
_first_human_text(system, human) ==
    IF system = None THEN human.str
    ELSE B_SYS \o system.str \o E_SYS \o human.str

_format_dialogue(system, turns) ==
    _format_human(_first_human_text(system, turns[1].content))
    \o Concat([k \in 1..(Len(turns) - 1) |->
                 IF turns[k + 1].type = "HumanRegularMessage"
                 THEN _format_human(turns[k + 1].content.str)
                 ELSE _format_ai(turns[k + 1].content.str)])

(* The structural errors of a message sequence.  When both apply, either   *)
(* may be the one reported: the order of the two checks is not fixed here. *)
_validation_errors(turns) ==
    (IF _ends_with_user(turns) THEN {} ELSE {LAST_MESSAGE_ERROR})
    \cup (IF _alternates(turns) THEN {} ELSE {ALTERNATION_ERROR})

(* llama_emulator.display: the set of its possible outcomes. *)
llama_emulator_display(messages) ==
    LET dialogue == _split_system(messages)
        errors == _validation_errors(dialogue.turns)
    IN IF errors # {}
       THEN {Raise("ValidationError", e) : e \in errors}
       ELSE {Return([text |-> _format_dialogue(dialogue.system, dialogue.turns),
                     stop_sequences |-> <<>>])}

---------------------------------------------------------------------------
(* Inputs of the emulator: the sequences of the tests, and every short     *)
(* sequence of plain messages with and without surrounding whitespace.     *)

MaxDialogue == 4

test_construction_single_message ==
    <<user(<<" ", " ", "human", " ", "message1", " ", " ">>)>>

test_construction_many_without_system ==
    <<user(<<" ", " ", "human", " ", "message1", " ", " ">>),
      ai(<<" ", " ", " ", " ", " ", "ai", " ", "message1", " ", " ", " ", " ", " ">>),
      user(<<" ", " ", "human", " ", "message2", " ", " ">>)>>

test_construction_many_with_system ==
    <<sys(<<" ", "system", " ", "message1", " ">>)>>
    \o test_construction_many_without_system

test_invalid_alternation ==
    <<ai(<<" ", " ", " ", " ", " ", "ai", " ", "message1", " ", " ", " ", " ", " ">>),
      user(<<" ", " ", "human", " ", "message1", " ", " ">>),
      user(<<" ", " ", "human", " ", "message2", " ", " ">>)>>

test_invalid_last_message ==
    test_construction_many_without_system
    \o <<ai(<<" ", " ", " ", " ", " ", "ai", " ", "message2", " ", " ", " ", " ", " ">>)>>

DialogueContents == {<<"hi">>, <<" ", "ok", "\n">>}

DialogueMessageValues ==
    {sys(c) : c \in DialogueContents} \cup {user(c) : c \in DialogueContents}
    \cup {ai(c) : c \in DialogueContents}

DisplayInputs ==
    SeqsUpTo(DialogueMessageValues, MaxDialogue)
    \cup {test_construction_single_message, test_construction_many_without_system,
          test_construction_many_with_system, test_invalid_alternation,
          test_invalid_last_message}

---------------------------------------------------------------------------
(* URLs.  A URL is a str whose tokens are its scheme, the pieces of its    *)
(* host, "/" separators, path segments and a file extension.               *)

Schemes == {"http://", "https://"}

(* str.lower(), token by token. *)
lower_token(t) == IF t = "DIAL" THEN "dial" ELSE t

lower(s) == [i \in 1..Len(s) |-> lower_token(s[i])]

startswith(s, prefix) ==
    Len(prefix) <= Len(s) /\ SubSeq(s, 1, Len(prefix)) = prefix

is_absolute(url) == url # <<>> /\ Head(url) \in Schemes

(* urllib.parse.urljoin(base, url) for a base "<scheme><host>/v1/": an     *)
(* absolute url replaces the base, a relative path is appended to it.      *)
urljoin(base, url) == IF is_absolute(url) THEN url ELSE base \o url

(* mimetypes.guess_type(url)[0]: the type of the extension, if any. *)
guess_type(url) ==
    LET ext == IF url = <<>> THEN "" ELSE url[Len(url)]
    IN CASE ext = ".png" -> Str(<<"image/png">>)
         [] ext \in {".jpg", ".jpeg"} -> Str(<<"image/jpeg">>)
         [] ext = ".gif" -> Str(<<"image/gif">>)
         [] ext = ".webp" -> Str(<<"image/webp">>)
         [] ext = ".pdf" -> Str(<<"application/pdf">>)
         [] OTHER -> None

(* Python truthiness of an Optional[str]: None and "" are false. *)
truthy(v) == v # None /\ v # Str(<<>>)

---------------------------------------------------------------------------
(* dial_api/storage.py: downloads.  The response of the server is the      *)
(* environment's choice; a request is recorded with its url and headers.   *)

Dict(items) == [dict |-> items]

Request(url, headers) == [url |-> url, headers |-> headers]

(* What a call does: its outcome and the requests it sent. *)
Effect(outcome, requests) == [outcome |-> outcome, requests |-> requests]

FileStorage(dial_url, api_key) == [dial_url |-> dial_url, api_key |-> api_key]

auth_headers(self) == Dict({[name |-> "api-key", value |-> self.api_key]})

(* session.get refuses a url without a host before anything is sent;      *)
(* raise_for_status raises on an error status.                             *)
_download_file(url, headers, response) ==
    IF ~is_absolute(url.str)
    THEN Effect(Raise("InvalidURL", "url without a host"), <<>>)
    ELSE Effect(IF response = "ok" THEN Return(Str(<<"bytes">>))
                ELSE Raise("ClientResponseError", "raise_for_status"),
                <<Request(url, headers)>>)

download_file_as_base64(url, headers, response) ==
    LET got == _download_file(url, headers, response)
    IN IF got.outcome.kind = "return"
       THEN Effect(Return(Str(<<"base64">>)), got.requests)
       ELSE got

FileStorage_download_file_as_base64(self, dial_path, response) ==
    LET url == urljoin(self.dial_url.str \o <<"/", "v1", "/">>, dial_path.str)
        headers == IF startswith(lower(url), lower(self.dial_url.str))
                   THEN auth_headers(self)
                   ELSE Dict({})
    IN download_file_as_base64(Str(url), headers, response)

---------------------------------------------------------------------------
(* claude/v3/converters.py: attachments *)

IMAGE_MEDIA_TYPES ==
    {Str(<<"image/png">>), Str(<<"image/jpeg">>), Str(<<"image/gif">>),
     Str(<<"image/webp">>)}

Attachment(type, data, url) == [type |-> type, data |-> data, url |-> url]

_validate_media_type(media_type) ==
    IF media_type \notin IMAGE_MEDIA_TYPES
    THEN Raise("UserError", "Unsupported media type")
    ELSE Return(media_type)

_create_image_block(media_type, data) ==
    [type |-> "image",
     source |-> [data |-> data, media_type |-> media_type, type |-> "base64"]]

_download_data(url, file_storage, response) ==
    IF file_storage = None
    THEN download_file_as_base64(url, None, response)
    ELSE FileStorage_download_file_as_base64(file_storage, url, response)

(* The media type is validated where the image block is built: for a url,  *)
(* after the download.                                                     *)
_to_claude_image(attachment, file_storage, response) ==
    IF truthy(attachment.data)
    THEN IF ~truthy(attachment.type)
         THEN Effect(Raise("ValidationError",
                           "Attachment type is required for provided data"), <<>>)
         ELSE LET valid == _validate_media_type(attachment.type)
              IN IF valid.kind = "raise" THEN Effect(valid, <<>>)
                 ELSE Effect(Return(_create_image_block(valid.value, attachment.data)),
                             <<>>)
    ELSE IF truthy(attachment.url)
    THEN LET media_type == IF truthy(attachment.type) THEN attachment.type
                           ELSE guess_type(attachment.url.str)
         IN IF ~truthy(media_type)
            THEN Effect(Raise("ValidationError", "Cannot guess attachment type"), <<>>)
            ELSE LET got == _download_data(attachment.url, file_storage, response)
                     valid == _validate_media_type(media_type)
                 IN IF got.outcome.kind = "raise" THEN got
                    ELSE IF valid.kind = "raise" THEN Effect(valid, got.requests)
                    ELSE Effect(Return(_create_image_block(valid.value,
                                                           got.outcome.value)),
                                got.requests)
    ELSE Effect(Raise("ValidationError", "Attachment data or URL is required"), <<>>)

---------------------------------------------------------------------------
(* Inputs of the attachment resolver. *)

AttachmentTypes ==
    {None, Str(<<>>), Str(<<"application/pdf">>)} \cup IMAGE_MEDIA_TYPES

AttachmentData == {None, Str(<<>>), Str(<<"aGVsbG8=">>)}

(* The hosts: the gateway's, the gateway's in upper case, a host whose     *)
(* name starts with the gateway's, and an unrelated one.                   *)
Hosts == {<<"dial">>, <<"DIAL">>, <<"dial", ".evil.com">>, <<"cdn.example.com">>}

Extensions == {<<".png">>, <<".jpg">>, <<".pdf">>, <<>>}

AbsoluteUrls ==
    {<<"https://">> \o h \o <<"/", "files", "/", "img">> \o e :
        h \in Hosts, e \in Extensions}

RelativePaths == {<<"files", "/", "img">> \o e : e \in Extensions}

AttachmentUrls ==
    {None, Str(<<>>)} \cup {Str(u) : u \in AbsoluteUrls \cup RelativePaths}

Attachments ==
    {Attachment(t, d, u) :
        t \in AttachmentTypes, d \in AttachmentData, u \in AttachmentUrls}

(* create_file_storage: no storage without DIAL_URL. *)
FileStorages ==
    {None, FileStorage(Str(<<"https://", "dial">>), Str(<<"secret">>))}

Responses == {"ok", "error"}

---------------------------------------------------------------------------
(* The state machine.  A request starts idle; one operation of the core is *)
(* applied to it; the request and everything built for it are discarded.   *)

Init ==
    /\ op = "idle"
    /\ args = None
    /\ ret = None
    /\ http = <<>>

ParseDialMessage ==
    /\ op = "idle"
    /\ \E msg \in WireMessages :
        /\ op' = "parse_dial_message"
        /\ args' = [msg |-> msg]
        /\ ret' = parse_dial_message(msg)
        /\ UNCHANGED http

ProcessWithTools ==
    /\ op = "idle"
    /\ \E message \in AllMessages, tools_mode \in ToolsMode \cup {None} :
        /\ op' = "process_with_tools"
        /\ args' = [message |-> message, tools_mode |-> tools_mode]
        /\ ret' = process_with_tools(message, tools_mode)
        /\ UNCHANGED http

ToDialFinishReason ==
    /\ op = "idle"
    /\ \E finish_reason \in BackendReasons, tools_mode \in ToolsMode \cup {None} :
        /\ op' = "to_dial_finish_reason"
        /\ args' = [finish_reason |-> finish_reason, tools_mode |-> tools_mode]
        /\ ret' = to_dial_finish_reason(finish_reason, tools_mode)
        /\ UNCHANGED http

TruncatePrompt ==
    /\ op = "idle"
    /\ \E messages \in TruncateInputs, user_limit \in 0..MaxUserLimit,
          model_limit \in ModelLimits :
        \E partition_sizes \in Partitions(messages) :
            /\ op' = "truncate_prompt"
            /\ args' = [messages |-> messages, partition_sizes |-> partition_sizes,
                        model_limit |-> model_limit, user_limit |-> user_limit]
            /\ ret' = truncate_prompt(messages, partition_sizes, model_limit, user_limit)
            /\ UNCHANGED http

Display ==
    /\ op = "idle"
    /\ \E messages \in DisplayInputs :
        \E outcome \in llama_emulator_display(messages) :
            /\ op' = "display"
            /\ args' = [messages |-> messages]
            /\ ret' = outcome
            /\ UNCHANGED http

ToClaudeImage ==
    /\ op = "idle"
    /\ \E attachment \in Attachments, file_storage \in FileStorages,
          response \in Responses :
        LET effect == _to_claude_image(attachment, file_storage, response)
        IN /\ op' = "_to_claude_image"
           /\ args' = [attachment |-> attachment, file_storage |-> file_storage]
           /\ ret' = effect.outcome
           /\ http' = effect.requests

Discard ==
    /\ op # "idle"
    /\ op' = "idle"
    /\ args' = None
    /\ ret' = None
    /\ http' = <<>>

Next ==
    \/ ParseDialMessage
    \/ ProcessWithTools
    \/ ToDialFinishReason
    \/ TruncatePrompt
    \/ Display
    \/ ToClaudeImage
    \/ Discard

Spec == Init /\ [][Next]_vars

---------------------------------------------------------------------------
(* Properties of the prompt truncator *)

Truncated == op = "truncate_prompt" /\ ret.value.type = "set"

TruncationFailed == op = "truncate_prompt" /\ ret.value.type = "TruncatePromptError"

(* The quantities of a truncate_prompt call, written out from the call's   *)
(* arguments alone.                                                        *)
CallIndices == 0..(Len(args.messages) - 1)

CallMandatory ==
    {idx \in CallIndices :
        args.messages[idx + 1].type = "SystemMessage" \/ idx + 1 = Len(args.messages)}

CallUnits == TurnUnits(args.messages, args.partition_sizes)

CallTokens(indices) == _tokenize_by_words(select_by_indices(args.messages, indices))

CallBudget ==
    IF args.model_limit = None \/ args.user_limit <= args.model_limit.int
    THEN args.user_limit
    ELSE args.model_limit.int

(* Units j..n, the most recent ones, together with the mandatory messages. *)
CallSuffix(j) == CallMandatory \cup UNION {CallUnits[i] : i \in j..Len(CallUnits)}

(* C1: a discard set never contains a system message or the last message,  *)
(* and every turn unit is discarded as a whole or kept as a whole.         *)
C1_NeverSplitsNorDropsMandatory ==
    Truncated =>
        /\ ret.value.items \subseteq CallIndices
        /\ \A idx \in ret.value.items :
            /\ args.messages[idx + 1].type # "SystemMessage"
            /\ idx # Len(args.messages) - 1
        /\ \A k \in 1..Len(CallUnits) :
            \/ CallUnits[k] \subseteq ret.value.items
            \/ CallUnits[k] \cap ret.value.items = {}

(* A conversation with a system message where a unit of two messages is    *)
(* discarded and another unit of two messages is kept.                     *)
C1_Witness ==
    /\ Truncated
    /\ \E i \in 1..Len(args.messages) : args.messages[i].type = "SystemMessage"
    /\ \E k \in 1..Len(CallUnits) :
        Cardinality(CallUnits[k]) = 2 /\ CallUnits[k] \subseteq ret.value.items
    /\ \E k \in 1..Len(CallUnits) :
        Cardinality(CallUnits[k]) = 2 /\ CallUnits[k] \cap ret.value.items = {}

(* C2: when the mandatory messages fit, the discarded messages are those   *)
(* of the units 1..stop, where stop is the most recent unit that does not  *)
(* fit together with the mandatory messages and all the units after it (0  *)
(* when every unit fits): the kept units are a most-recent suffix.  With   *)
(* one token per message, [sys, user, ai, user, ai, user] loses {1,2,3,4}  *)
(* at budget 2 or 3, {1,2} at budget 4 or 5 and nothing at budget 6.       *)
C2_GreedyMostRecentSuffix ==
    Truncated =>
        LET unfit == {j \in 1..Len(CallUnits) : CallTokens(CallSuffix(j)) > CallBudget}
            stop == IF unfit = {} THEN 0
                    ELSE CHOOSE j \in unfit : \A i \in unfit : i <= j
        IN /\ ret.value.items = UNION {CallUnits[i] : i \in 1..stop}
           /\ (/\ args.messages = turns_sys
               /\ args.partition_sizes = <<2, 2>>
               /\ args.model_limit = None)
              => /\ args.user_limit \in {2, 3} => ret.value.items = {1, 2, 3, 4}
                 /\ args.user_limit \in {4, 5} => ret.value.items = {1, 2}
                 /\ args.user_limit >= 6 => ret.value.items = {}

(* An older unit is discarded although it would fit on its own with the    *)
(* mandatory messages, because a more recent unit did not fit.             *)
C2_Witness ==
    /\ Truncated
    /\ \E k \in 1..Len(CallUnits) :
        /\ CallUnits[k] \subseteq ret.value.items
        /\ CallTokens(CallMandatory \cup CallUnits[k]) <= CallBudget
    /\ \E k \in 1..Len(CallUnits) : CallUnits[k] \cap ret.value.items = {}

(* C3: the call fails exactly when the tokens of the system messages and   *)
(* the last message exceed the effective budget (the smaller of the model  *)
(* limit and the user limit), and the error carries that count and that    *)
(* budget.  [sys, user, ai, user, ai, user] at budget 1 reports 2 and 1;   *)
(* without the system message it is not an error.                          *)
C3_ErrorIffMandatoryExceedsBudget ==
    op = "truncate_prompt" =>
        /\ ret.kind = "return"
        /\ ret.value.type = "TruncatePromptError"
            <=> CallTokens(CallMandatory) > CallBudget
        /\ ret.value.type = "TruncatePromptError" =>
            /\ ret.value.prompt_tokens = CallTokens(CallMandatory)
            /\ ret.value.max_prompt_tokens = CallBudget
        /\ (args.messages = turns_sys /\ args.user_limit = 1 /\ args.model_limit = None)
            => ret.value = TruncatePromptError(1, 2)
        /\ (args.messages = turns_no_sys /\ args.user_limit = 1 /\ args.model_limit = None)
            => ret.value.type = "set"

(* A failure whose budget is the model limit, smaller than the user limit. *)
C3_Witness ==
    /\ TruncationFailed
    /\ args.model_limit # None
    /\ args.model_limit.int < args.user_limit
    /\ ret.value.max_prompt_tokens = args.model_limit.int
    /\ ret.value.prompt_tokens > 1

(* C4: if the call succeeds at its user limit, then at every larger user   *)
(* limit (same messages, partition and model limit) it succeeds too and    *)
(* discards a subset of what this call discards.                           *)
C4_MonotonicInBudget ==
    Truncated =>
        \A larger \in args.user_limit..(MaxUserLimit + 1) :
            LET other == truncate_prompt(args.messages, args.partition_sizes,
                                         args.model_limit, larger)
            IN /\ other.value.type = "set"
               /\ other.value.items \subseteq ret.value.items

(* A call that discards something that a larger budget keeps. *)
C4_Witness ==
    /\ Truncated
    /\ \E larger \in args.user_limit..MaxUserLimit :
        LET other == truncate_prompt(args.messages, args.partition_sizes,
                                     args.model_limit, larger)
        IN /\ other.value.type = "set"
           /\ other.value.items # ret.value.items
           /\ other.value.items # {}

---------------------------------------------------------------------------
(* Properties of process_with_tools *)

Processed == op = "process_with_tools"

RaisedValidationError == ret.kind = "raise" /\ ret.error = "ValidationError"

(* The message's calling convention does not match the tools mode. *)
ConventionMismatch ==
    \/ /\ args.tools_mode = None
       /\ args.message.type \in {"AIToolCallMessage", "HumanToolResultMessage",
                                 "AIFunctionCallMessage", "HumanFunctionResultMessage"}
    \/ /\ args.tools_mode = TOOLS
       /\ args.message.type \in {"AIFunctionCallMessage", "HumanFunctionResultMessage"}
    \/ /\ args.tools_mode = FUNCTIONS
       /\ args.message.type \in {"AIToolCallMessage", "HumanToolResultMessage"}

(* C5: a message whose calling convention does not match the tools mode is *)
(* rejected with a ValidationError and nothing is returned; with no mode   *)
(* and with mode TOOLS every other message is returned unchanged.          *)
C5_MismatchRejected ==
    Processed =>
        /\ ConventionMismatch => RaisedValidationError
        /\ (~ConventionMismatch /\ args.tools_mode \in {None, TOOLS})
            => ret = Return(args.message)

(* A function call message rejected under TOOLS. *)
C5_Witness ==
    /\ Processed
    /\ args.tools_mode = TOOLS
    /\ args.message.type = "AIFunctionCallMessage"
    /\ RaisedValidationError
    /\ ret.message = "You cannot use function messages with tools config."

(* The function message a tool-shaped message stands for. *)
FunctionMessageOf(message) ==
    IF message.type = "AIToolCallMessage"
    THEN AIFunctionCallMessage(
             FunctionCall(message.calls[1].id, message.calls[1].function.arguments),
             message.content)
    ELSE HumanFunctionResultMessage(message.id, message.content)

(* C6: under FUNCTIONS a function call becomes a tool call message with    *)
(* one call whose id is the function name and whose function and content   *)
(* are the original's; a function result becomes a tool result whose id is *)
(* the function name with the same content.  The rewrite is invertible:    *)
(* the original is rebuilt from the result, and no other function message  *)
(* is rewritten to the same result.                                        *)
C6_FunctionsRewrittenInvertibly ==
    (Processed /\ args.tools_mode = FUNCTIONS) =>
        /\ args.message.type = "AIFunctionCallMessage" =>
            /\ ret.kind = "return"
            /\ ret.value.type = "AIToolCallMessage"
            /\ Len(ret.value.calls) = 1
            /\ ret.value.calls[1].id = args.message.call.name
            /\ ret.value.calls[1].type = "function"
            /\ ret.value.calls[1].function.name = args.message.call.name
            /\ ret.value.calls[1].function.arguments = args.message.call.arguments
            /\ ret.value.content = args.message.content
        /\ args.message.type = "HumanFunctionResultMessage" =>
            /\ ret.kind = "return"
            /\ ret.value.type = "HumanToolResultMessage"
            /\ ret.value.id = args.message.name
            /\ ret.value.content = args.message.content
        /\ args.message.type \in {"AIFunctionCallMessage", "HumanFunctionResultMessage"} =>
            /\ FunctionMessageOf(ret.value) = args.message
            /\ \A other \in FunctionMessages \ {args.message} :
                process_with_tools(other, FUNCTIONS) # ret

(* A function call with content and arguments, rewritten. *)
C6_Witness ==
    /\ Processed
    /\ args.tools_mode = FUNCTIONS
    /\ args.message.type = "AIFunctionCallMessage"
    /\ args.message.content = Str(<<"text">>)
    /\ args.message.call = FunctionCall(Str(<<"g">>), Str(<<"{x:1}">>))
    /\ ret.kind = "return"
    /\ ret.value.calls[1].id = Str(<<"g">>)

---------------------------------------------------------------------------
(* Properties of to_dial_finish_reason *)

(* C7: end_turn, stop_sequence and no reason give stop, max_tokens gives   *)
(* length, in every mode; tool_use gives tool_calls under TOOLS,           *)
(* function_call under FUNCTIONS and a ValidationError with no mode.       *)
C7_FinishReasonMapping ==
    op = "to_dial_finish_reason" =>
        /\ args.finish_reason \in {None, Str(<<"end_turn">>), Str(<<"stop_sequence">>)}
            => ret = Return("stop")
        /\ args.finish_reason = Str(<<"max_tokens">>) => ret = Return("length")
        /\ args.finish_reason = Str(<<"tool_use">>) =>
            /\ args.tools_mode = TOOLS => ret = Return("tool_calls")
            /\ args.tools_mode = FUNCTIONS => ret = Return("function_call")
            /\ args.tools_mode = None => RaisedValidationError
        /\ ret.kind = "return" => ret.value \in FinishReason

(* tool_use under FUNCTIONS, mapped to function_call. *)
C7_Witness ==
    /\ op = "to_dial_finish_reason"
    /\ args.finish_reason = Str(<<"tool_use">>)
    /\ args.tools_mode = FUNCTIONS
    /\ ret = Return(FINISH_FUNCTION_CALL)

---------------------------------------------------------------------------
(* Properties of the Llama chat emulator *)

Displayed == op = "display"

(* The messages of the call after its optional leading system message. *)
CallTurns ==
    IF Len(args.messages) > 0 /\ args.messages[1].type = "SystemMessage"
    THEN Tail(args.messages)
    ELSE args.messages

CallSystem ==
    IF Len(args.messages) > 0 /\ args.messages[1].type = "SystemMessage"
    THEN args.messages[1].content.str
    ELSE <<>>

CallEndsWithUser ==
    Len(CallTurns) > 0 /\ CallTurns[Len(CallTurns)].type = "HumanRegularMessage"

(* No system message after the first position, a user message first, and   *)
(* never two adjacent messages of the same role.                           *)
CallAlternates ==
    /\ \A i \in 1..Len(CallTurns) : CallTurns[i].type # "SystemMessage"
    /\ Len(CallTurns) > 0 => CallTurns[1].type = "HumanRegularMessage"
    /\ \A i \in 1..(Len(CallTurns) - 1) : CallTurns[i].type # CallTurns[i + 1].type

UserSegment(text) == <<"<s>", "[INST]", " ">> \o text \o <<" ", "[/INST]">>

AssistantSegment(text) == <<" ">> \o text \o <<" ", "</s>">>

SysBlock(text) == <<"<<SYS>>", "\n">> \o text \o <<"\n", "<</SYS>>", "\n", "\n">>

HasSystem == Len(args.messages) > 0 /\ args.messages[1].type = "SystemMessage"

(* Every content trimmed on its own before it is embedded. *)
TrimmedSegment(i) ==
    IF CallTurns[i].type = "AIRegularMessage"
    THEN AssistantSegment(strip(CallTurns[i].content.str))
    ELSE IF i = 1 /\ HasSystem
    THEN UserSegment(SysBlock(strip(CallSystem)) \o strip(CallTurns[i].content.str))
    ELSE UserSegment(strip(CallTurns[i].content.str))

(* The system block and the first user text joined, then trimmed as one.   *)
EmbeddedSegment(i) ==
    IF CallTurns[i].type = "AIRegularMessage"
    THEN AssistantSegment(strip(CallTurns[i].content.str))
    ELSE IF i = 1 /\ HasSystem
    THEN UserSegment(strip(SysBlock(CallSystem) \o CallTurns[i].content.str))
    ELSE UserSegment(strip(CallTurns[i].content.str))

(* C9 as stated: the prompt is the concatenation of the turns with the     *)
(* content of every message, the system message included, trimmed of its   *)
(* leading and trailing whitespace before it is embedded.                  *)
C9_EveryContentTrimmed ==
    (Displayed /\ ret.kind = "return") =>
        ret.value.text = Concat([i \in 1..Len(CallTurns) |-> TrimmedSegment(i)])

(* C9, amended: an accepted sequence gives no stop sequences and a prompt  *)
(* that starts with <s> and concatenates the turns in order; user and      *)
(* assistant contents are trimmed, except that with a system message the   *)
(* first user turn is the system block and the user text trimmed as one    *)
(* string: the system content is embedded as it is and the user text keeps *)
(* its leading whitespace.  The three prompts of the tests are produced.   *)
C9_PromptFormat ==
    (Displayed /\ ret.kind = "return") =>
        /\ ret.value.stop_sequences = <<>>
        /\ ret.value.text[1] = "<s>"
        /\ ret.value.text = Concat([i \in 1..Len(CallTurns) |-> EmbeddedSegment(i)])
        /\ args.messages = test_construction_single_message =>
            ret.value.text =
                <<"<s>", "[INST]", " ", "human", " ", "message1", " ", "[/INST]">>
        /\ args.messages = test_construction_many_without_system =>
            ret.value.text =
                <<"<s>", "[INST]", " ", "human", " ", "message1", " ", "[/INST]",
                  " ", "ai", " ", "message1", " ", "</s>",
                  "<s>", "[INST]", " ", "human", " ", "message2", " ", "[/INST]">>
        /\ args.messages = test_construction_many_with_system =>
            ret.value.text =
                <<"<s>", "[INST]", " ", "<<SYS>>", "\n",
                  " ", "system", " ", "message1", " ", "\n", "<</SYS>>", "\n", "\n",
                  " ", " ", "human", " ", "message1", " ", "[/INST]",
                  " ", "ai", " ", "message1", " ", "</s>",
                  "<s>", "[INST]", " ", "human", " ", "message2", " ", "[/INST]">>

(* A dialogue with a system message whose content has surrounding          *)
(* whitespace and an assistant turn, accepted.                             *)
C9_Witness ==
    /\ Displayed
    /\ ret.kind = "return"
    /\ HasSystem
    /\ CallSystem # strip(CallSystem)
    /\ Len(CallTurns) >= 3
    /\ CallTurns[1].content.str # strip(CallTurns[1].content.str)

---------------------------------------------------------------------------
(* Properties of parse_dial_message *)

Parsed == op = "parse_dial_message"

(* The variant a wire message must parse to, from its role and fields. *)
ExpectedVariant ==
    CASE args.msg.role = "system" -> "SystemMessage"
      [] args.msg.role = "user" -> "HumanRegularMessage"
      [] args.msg.role = "function" -> "HumanFunctionResultMessage"
      [] args.msg.role = "tool" -> "HumanToolResultMessage"
      [] args.msg.role = "assistant" /\ args.msg.function_call # None -> "AIFunctionCallMessage"
      [] args.msg.role = "assistant" /\ args.msg.tool_calls # None -> "AIToolCallMessage"
      [] OTHER -> "AIRegularMessage"

ContentAbsent(content) == content = None

ContentAbsentOrEmptyString(content) == content = None \/ content = Str(<<>>)

(* What parsing guarantees, given whether the content of the wire message *)
(* counts as empty.                                                        *)
ParseContract(content_is_empty) ==
    /\ ret.kind = "return" \/ RaisedValidationError
    /\ (/\ args.msg.role = "assistant"
        /\ args.msg.function_call # None
        /\ args.msg.tool_calls # None) => RaisedValidationError
    /\ (/\ args.msg.role = "assistant"
        /\ args.msg.content = None
        /\ args.msg.function_call = None
        /\ args.msg.tool_calls = None) => RaisedValidationError
    /\ (args.msg.role \in {"system", "user"} /\ content_is_empty)
        => RaisedValidationError
    /\ (/\ args.msg.role = "function"
        /\ (args.msg.name = None \/ args.msg.content = None)) => RaisedValidationError
    /\ (/\ args.msg.role = "tool"
        /\ (args.msg.tool_call_id = None \/ args.msg.content = None))
        => RaisedValidationError
    /\ ret.kind = "return" =>
        /\ ret.value.type = ExpectedVariant
        /\ ret.value.type \in BaseMessage \cup ToolMessage
        /\ ~("call" \in DOMAIN ret.value /\ "calls" \in DOMAIN ret.value)
        /\ ret.value.type = "AIToolCallMessage" => args.msg.function_call = None
        /\ ret.value.type = "AIFunctionCallMessage" => args.msg.tool_calls = None

(* C10 as stated: parsing returns the one variant its role and fields      *)
(* determine or fails with a ValidationError; it fails for an assistant    *)
(* message with both a function call and tool calls or with nothing, for a *)
(* system or user message with empty content (absent, or the empty         *)
(* string), and for a result message missing its id, name or content.      *)
C10_EmptyContentRejected == Parsed => ParseContract(ContentAbsentOrEmptyString(args.msg.content))

(* C10, amended: the same, where a system or user message fails only when  *)
(* its content is absent (None); the empty string is a content.            *)
C10_ParseOrValidationError == Parsed => ParseContract(ContentAbsent(args.msg.content))

(* An assistant message with both a function call and tool calls, failed.  *)
C10_Witness ==
    /\ Parsed
    /\ args.msg.role = "assistant"
    /\ args.msg.function_call # None
    /\ args.msg.tool_calls # None
    /\ ret = Raise("ValidationError", "Unknown type of assistant message")


---------------------------------------------------------------------------
(* Attachment resolution *)

Resolved == op = "_to_claude_image"

Raised(error) == ret.kind = "raise" /\ ret.error = error

(* The media type the resolver settles on: the given one, else, for an     *)
(* attachment without inline data, the one inferred from the url.          *)
CallMediaType ==
    IF truthy(args.attachment.type) THEN args.attachment.type
    ELSE IF ~truthy(args.attachment.data) /\ truthy(args.attachment.url)
    THEN guess_type(args.attachment.url.str)
    ELSE None

IsImageBlock == ret.kind = "return" /\ ret.value.type = "image"

(* C11: attachment resolution yields an image block only with a media      *)
(* type of the allow-list; inline data without a content type, a url whose *)
(* type is neither given nor inferable, and an attachment with neither     *)
(* data nor url fail with a ValidationError; a given or inferred type      *)
(* outside the allow-list fails with a UserError.                          *)
C11_AllowListOrError ==
    Resolved =>
        /\ IsImageBlock => ret.value.source.media_type \in IMAGE_MEDIA_TYPES
        /\ (truthy(args.attachment.data) /\ ~truthy(args.attachment.type))
               => Raised("ValidationError")
        /\ (/\ ~truthy(args.attachment.data)
            /\ truthy(args.attachment.url)
            /\ ~truthy(CallMediaType))
               => Raised("ValidationError")
        /\ (~truthy(args.attachment.data) /\ ~truthy(args.attachment.url))
               => Raised("ValidationError")
        /\ (/\ truthy(args.attachment.data) \/ truthy(args.attachment.url)
            /\ truthy(CallMediaType)
            /\ CallMediaType \notin IMAGE_MEDIA_TYPES)
               => Raised("UserError")


---------------------------------------------------------------------------
(* Authentication of attachment fetches *)

(* The host of an absolute url: what stands between the scheme and the     *)
(* first "/".  Host names compare without regard to case.                  *)
RECURSIVE host_end(_, _)
host_end(url, i) ==
    IF i > Len(url) \/ url[i] = "/" THEN i - 1 ELSE host_end(url, i + 1)

host(url) == SubSeq(lower(url), 2, host_end(url, 2))

CarriesApiKey(request) ==
    /\ request.headers # None
    /\ \E header \in request.headers.dict : header.name = "api-key"

OnGatewayHost(request) ==
    /\ args.file_storage # None
    /\ host(request.url.str) = host(args.file_storage.dial_url.str)

(* C12: a fetch carries the api-key header only when its url belongs to    *)
(* the gateway's own storage: a download from any other host is            *)
(* unauthenticated whether or not a storage client is configured, and      *)
(* without a storage client no fetch carries the api-key.                  *)
C12_ApiKeyOnlyToGateway ==
    Resolved =>
        \A i \in 1..Len(http) : CarriesApiKey(http[i]) => OnGatewayHost(http[i])


---------------------------------------------------------------------------
(* Plain messages under every tools mode *)

(* C13: for every tools mode (absent, TOOLS, FUNCTIONS) process_with_tools *)
(* returns every plain message (SystemMessage, HumanRegularMessage,        *)
(* AIRegularMessage) unchanged and raises no error.                        *)
C13_PlainMessagesUnchanged ==
    (Processed /\ isinstance(args.message, BaseMessage))
        => ret = Return(args.message)

====
